---- MODULE Spec2Model ----
(***************************************************************************)
(* State-machine model of src/index.tsx: a page with a file input, a       *)
(* submit button, a preview area, a result area, a loader and an           *)
(* error-message area.  Two event handlers (file input "change", submit    *)
(* button "click") and the continuations of the click handler's two awaits *)
(* (the FileReader and the generateContent call) are the actions.          *)
(***************************************************************************)
EXTENDS Integers, Sequences, FiniteSets, TLC

\* Bounds of the model.
MaxTasks == 2     \* click handlers that may be suspended at an await at once
MaxParts == 3     \* longest list of response parts delivered by the service

VARIABLES
    selectedFile,    \* let selectedFile: File | null
    files,           \* imageUpload.files
    preview,         \* children of #original-image-preview
    result,          \* img / p children of #generated-image-container
    loaderHidden,    \* loader.hidden
    submitDisabled,  \* submitBtn.disabled
    inputDisabled,   \* imageUpload.disabled
    errorMessage,    \* errorMessage.textContent
    tasks,           \* click handlers suspended at an await, oldest first
    uncaught,        \* TRUE once a click handler's promise has rejected
    lastEvent        \* the event or continuation that ran last

vars == <<selectedFile, files, preview, result, loaderHidden, submitDisabled,
          inputDisabled, errorMessage, tasks, uncaught, lastEvent>>

----------------------------------------------------------------------------
\* Values

null == [null |-> TRUE]

PngBytes == <<137, 80, 78>>
JpegBytes == <<255, 216, 255, 224>>

Files ==
    { [bytes |-> PngBytes, type |-> "image/png"],
      [bytes |-> JpegBytes, type |-> "image/jpeg"],
      [bytes |-> PngBytes, type |-> "image/jpeg"] }

\* A FileList holds the files of the input: none, or the one picked.
FileLists == {<<>>} \cup {<<f>> : f \in Files}

\* The texts of index.tsx, in ASCII; Prompt is its first sentence, the
\* request carries it unchanged whatever its length.
NoFileMessage == "Lutfen once bir resim dosyasi secin."
defaultError == "Yanit bir resim icermiyor. Modelin guvenlik filtreleri tarafindan engellenmis olabilir."
UnknownError == "Bilinmeyen bir hata olustu."
GeneratedAlt == "Yapay zeka tarafindan olusturulan tarihi ani"
Prompt == "Bu fotograftaki kisiyi analiz et. ..."
Model == "gemini-2.5-flash-image-preview"

\* The fields that hold objects; the others hold strings.
ObjectFields == {"inlineData"}

\* JavaScript truthiness of an optional field of an object: an absent field
\* (undefined) and the empty string are falsy, every object is truthy.
Truthy(obj, field) ==
    /\ field \in DOMAIN obj
    /\ field \in ObjectFields \/ obj[field] # ""

----------------------------------------------------------------------------
\* fileToBase64

Base64Alphabet ==
    << "A","B","C","D","E","F","G","H","I","J","K","L","M","N","O","P",
       "Q","R","S","T","U","V","W","X","Y","Z","a","b","c","d","e","f",
       "g","h","i","j","k","l","m","n","o","p","q","r","s","t","u","v",
       "w","x","y","z","0","1","2","3","4","5","6","7","8","9","+","/" >>

Sextet(n) == Base64Alphabet[n + 1]

RECURSIVE Base64(_)
Base64(bytes) ==
    IF Len(bytes) = 0 THEN ""
    ELSE IF Len(bytes) = 1 THEN
        Sextet(bytes[1] \div 4) \o Sextet((bytes[1] % 4) * 16) \o "=="
    ELSE IF Len(bytes) = 2 THEN
        Sextet(bytes[1] \div 4)
            \o Sextet((bytes[1] % 4) * 16 + bytes[2] \div 16)
            \o Sextet((bytes[2] % 16) * 4) \o "="
    ELSE
        Sextet(bytes[1] \div 4)
            \o Sextet((bytes[1] % 4) * 16 + bytes[2] \div 16)
            \o Sextet((bytes[2] % 16) * 4 + bytes[3] \div 64)
            \o Sextet(bytes[3] % 64)
            \o Base64(SubSeq(bytes, 4, Len(bytes)))

\* reader.result of readAsDataURL, as the pieces split(',') cuts it into.
readAsDataURL(file) ==
    << "data:" \o file.type \o ";base64", Base64(file.bytes) >>

\* reader.onload: resolve(reader.result.split(',')[1])
fileToBase64(file) == readAsDataURL(file)[2]

----------------------------------------------------------------------------
\* DOM helpers

\* displayError that shows the no-file message in place of an empty one.
displayErrorDefaultText(message) ==
    IF message = "" THEN NoFileMessage ELSE message

\* displayError that only logs to the console: the area keeps its text.
displayErrorConsoleOnly(message) == errorMessage

\* displayError: the new textContent of the error-message area (the line it
\* writes to the console is not part of the page's state).
displayError(message) == message

\* setLoading that never disables the submit button.
setLoadingSubmitStaysEnabled(isLoading) ==
    [ loaderHidden   |-> ~isLoading,
      submitDisabled |-> FALSE,
      inputDisabled  |-> isLoading ]

\* setLoading that never disables the file input.
setLoadingInputStaysEnabled(isLoading) ==
    [ loaderHidden   |-> ~isLoading,
      submitDisabled |-> isLoading,
      inputDisabled  |-> FALSE ]

\* setLoading with the flag of the submit button negated, as the loader's is.
setLoadingSubmitNegated(isLoading) ==
    [ loaderHidden   |-> ~isLoading,
      submitDisabled |-> ~isLoading,
      inputDisabled  |-> isLoading ]

\* setLoading with the flag of the file input negated, as the loader's is.
setLoadingInputNegated(isLoading) ==
    [ loaderHidden   |-> ~isLoading,
      submitDisabled |-> isLoading,
      inputDisabled  |-> ~isLoading ]

\* setLoading: the three properties it assigns.
setLoading(isLoading) ==
    [ loaderHidden   |-> ~isLoading,
      submitDisabled |-> isLoading,
      inputDisabled  |-> isLoading ]

\* querySelector('img') in place of querySelector('img, p'): an error
\* paragraph is not removed.
removeExistingImage(children) ==
    LET hits == {i \in DOMAIN children : children[i].tag = "img"}
    IN  IF hits = {} THEN children
        ELSE LET k == CHOOSE i \in hits : \A j \in hits : i <= j
             IN  SubSeq(children, 1, k - 1)
                     \o SubSeq(children, k + 1, Len(children))

\* querySelector('p') in place of querySelector('img, p'): a generated
\* image is not removed.
removeExistingParagraph(children) ==
    LET hits == {i \in DOMAIN children : children[i].tag = "p"}
    IN  IF hits = {} THEN children
        ELSE LET k == CHOOSE i \in hits : \A j \in hits : i <= j
             IN  SubSeq(children, 1, k - 1)
                     \o SubSeq(children, k + 1, Len(children))

\* The clearing of the previous result left out.
removeNothing(children) == children

\* querySelector('img, p') followed by remove(): the first img or p child
\* is removed, any other child stays.
removeExistingResult(children) ==
    LET hits == {i \in DOMAIN children : children[i].tag \in {"img", "p"}}
    IN  IF hits = {} THEN children
        ELSE LET k == CHOOSE i \in hits : \A j \in hits : i <= j
             IN  SubSeq(children, 1, k - 1)
                     \o SubSeq(children, k + 1, Len(children))

\* The preview made of the selection as it was before the pick.
PreviewImgOfOldSelection(file) == [tag |-> "img", src |-> [blob |-> selectedFile]]

\* The preview image of the change handler.
PreviewImg(file) == [tag |-> "img", src |-> [blob |-> file]]

\* The generated image of the click handler.
GeneratedImg(inlineData) ==
    [ tag |-> "img",
      src |-> "data:" \o inlineData.mimeType \o ";base64," \o inlineData.data,
      alt |-> GeneratedAlt ]

\* The error paragraph of the catch block.
ErrorEl(text) == [tag |-> "p", className |-> "error-in-box", textContent |-> text]

----------------------------------------------------------------------------
\* The service's responses and failures

Image1 == [mimeType |-> "image/png", data |-> "iVBORw0KGgo="]
Image2 == [mimeType |-> "image/jpeg", data |-> "/9j/4AAQ"]
Text1 == "blocked by safety filters"
Text2 == "Here is the generated photo."

\* A part carries any of the optional fields inlineData and text.
Parts ==
    { [inlineData |-> Image1],
      [inlineData |-> Image2],
      [text |-> Text1],
      [text |-> Text2],
      [text |-> ""],
      [thought |-> TRUE],
      [inlineData |-> Image2, text |-> Text1] }

PartLists == UNION {[1..n -> Parts] : n \in 0..MaxParts}

Responses ==
    { [promptFeedback |-> "SAFETY"],
      [candidates |-> <<>>],
      [candidates |-> <<[finishReason |-> "SAFETY"]>>],
      [candidates |-> <<[content |-> [role |-> "model"]]>>] }
    \cup {[candidates |-> <<[content |-> [parts |-> ps]]>>] : ps \in PartLists}

\* What a rejected await delivers to the catch block: the FileReader's
\* error event has no message, the client library's Error has one.
ProgressEvent == [type |-> "error"]
Error(message) == [message |-> message]
ServiceErrors == {Error("got status: 503 UNAVAILABLE"), Error("")}
TypeError == Error("Cannot read properties of null (reading 'type')")

\* response.candidates?.[0]?.content?.parts || []
PartsOf(response) ==
    IF "candidates" \notin DOMAIN response THEN <<>>
    ELSE IF Len(response.candidates) = 0 THEN <<>>
    ELSE IF "content" \notin DOMAIN response.candidates[1] THEN <<>>
    ELSE IF "parts" \notin DOMAIN response.candidates[1].content THEN <<>>
    ELSE response.candidates[1].content.parts

\* find that returns the last match instead of the first.
findLast(parts, field) ==
    LET hits == {i \in DOMAIN parts : Truthy(parts[i], field)}
    IN  IF hits = {} THEN <<>>
        ELSE <<parts[CHOOSE i \in hits : \A j \in hits : i >= j]>>

\* parts.find(part => part[field]): the first part whose field is truthy,
\* as a list of at most one part (empty for undefined).
find(parts, field) ==
    LET hits == {i \in DOMAIN parts : Truthy(parts[i], field)}
    IN  IF hits = {} THEN <<>>
        ELSE <<parts[CHOOSE i \in hits : \A j \in hits : i <= j]>>

\* The thrown error without the text of the response.
thrownErrorIgnoresText(textPart) == Error(defaultError)

\* throw new Error(textPart?.text || defaultError)
thrownError(textPart) ==
    Error(IF textPart # <<>> /\ Truthy(textPart[1], "text")
          THEN textPart[1].text ELSE defaultError)

\* The try block after the second await: the children of the result area
\* and the error thrown, if any.
handleResponse(response, children) ==
    LET parts == PartsOf(response)
        imagePart == find(parts, "inlineData")
        textPart == find(parts, "text")
    IN  IF imagePart # <<>> /\ Truthy(imagePart[1], "inlineData")
        THEN [ children |-> Append(children, GeneratedImg(imagePart[1].inlineData)),
               thrown   |-> <<>> ]
        ELSE [ children |-> children, thrown |-> <<thrownError(textPart)>> ]

\* The catch block's message without the error's own.
specificErrorAlwaysUnknown(error) == UnknownError

\* (error as Error).message || 'Bilinmeyen bir hata olustu.'
specificError(error) ==
    IF Truthy(error, "message") THEN error.message ELSE UnknownError

\* A catch block that renders nothing and throws the error again.
catchBlockRethrows(error, children) ==
    [children |-> children, rethrown |-> TRUE]

\* The catch block: the children of the result area after it, and whether
\* the error leaves the handler.
catchBlock(error, children) ==
    [ children |-> Append(children, ErrorEl(specificError(error))),
      rethrown |-> FALSE ]

\* No finally block: the three properties keep their values.
finallyBlockSkipped ==
    [ loaderHidden   |-> loaderHidden,
      submitDisabled |-> submitDisabled,
      inputDisabled  |-> inputDisabled ]

\* The finally block.
finallyBlock == setLoading(FALSE)

\* The request built after the first await: the selection is read again
\* for its media type.
Request(base64Image, file) ==
    [ model |-> Model,
      parts |-> << [inlineData |-> [data |-> base64Image, mimeType |-> file.type]],
                   [text |-> Prompt] >> ]

RemoveAt(seq, i) == SubSeq(seq, 1, i - 1) \o SubSeq(seq, i + 1, Len(seq))

----------------------------------------------------------------------------
\* The page as loaded.  The markup is not part of index.tsx; the submit
\* button is disabled until a file is picked, the loader is hidden and the
\* areas are empty.
PageMarkup ==
    [ submitDisabled |-> TRUE, inputDisabled |-> FALSE, loaderHidden |-> TRUE ]

\* The same page for any initial state of the submit button.
AnyMarkup ==
    { [PageMarkup EXCEPT !.submitDisabled = d] : d \in BOOLEAN }

Load(markup) ==
    /\ selectedFile = null
    /\ files = <<>>
    /\ preview = <<>>
    /\ result = <<>>
    /\ loaderHidden = markup.loaderHidden
    /\ submitDisabled = markup.submitDisabled
    /\ inputDisabled = markup.inputDisabled
    /\ errorMessage = ""
    /\ tasks = <<>>
    /\ uncaught = FALSE
    /\ lastEvent = [kind |-> "load"]

Init == Load(PageMarkup)

InitAnyMarkup == \E markup \in AnyMarkup : Load(markup)

----------------------------------------------------------------------------
\* imageUpload 'change' listener.  The event is delivered only by an
\* enabled input; picked is the input's file list after the user's pick
\* (empty when the pick was cancelled).
Change(picked) ==
    /\ ~inputDisabled
    /\ files' = picked
    /\ IF picked # <<>>
       THEN /\ selectedFile' = picked[1]
            /\ preview' = <<PreviewImg(picked[1])>>
            /\ submitDisabled' = FALSE
            /\ result' = removeExistingResult(result)
            /\ errorMessage' = displayError("")
       ELSE UNCHANGED <<selectedFile, preview, submitDisabled, result, errorMessage>>
    /\ lastEvent' = [ kind |-> "change", picked |-> picked,
                      before |-> [result |-> result, errorMessage |-> errorMessage] ]
    /\ UNCHANGED <<loaderHidden, inputDisabled, tasks, uncaught>>

\* The click listener with setLoading(true) ahead of the no-file guard.
ClickLoadingBeforeGuard ==
    /\ ~submitDisabled
    /\ selectedFile # null => Len(tasks) < MaxTasks
    /\ loaderHidden' = setLoading(TRUE).loaderHidden
    /\ submitDisabled' = setLoading(TRUE).submitDisabled
    /\ inputDisabled' = setLoading(TRUE).inputDisabled
    /\ IF selectedFile = null
       THEN /\ errorMessage' = displayError(NoFileMessage)
            /\ UNCHANGED <<result, tasks>>
       ELSE /\ result' = removeExistingResult(result)
            /\ errorMessage' = displayError("")
            /\ tasks' = Append(tasks, [ pc |-> "fileToBase64", file |-> selectedFile,
                                        issued |-> 0 ])
    /\ lastEvent' = [kind |-> "click", file |-> selectedFile]
    /\ UNCHANGED <<selectedFile, files, preview, uncaught>>

\* submitBtn 'click' listener up to its first await.  The event is
\* delivered only by an enabled button.
Click ==
    /\ ~submitDisabled
    /\ selectedFile # null => Len(tasks) < MaxTasks
    /\ IF selectedFile = null
       THEN /\ errorMessage' = displayError(NoFileMessage)
            /\ UNCHANGED <<result, loaderHidden, submitDisabled, inputDisabled, tasks>>
       ELSE /\ result' = removeExistingResult(result)
            /\ loaderHidden' = setLoading(TRUE).loaderHidden
            /\ submitDisabled' = setLoading(TRUE).submitDisabled
            /\ inputDisabled' = setLoading(TRUE).inputDisabled
            /\ errorMessage' = displayError("")
            /\ tasks' = Append(tasks, [ pc |-> "fileToBase64", file |-> selectedFile,
                                        issued |-> 0 ])
    /\ lastEvent' = [kind |-> "click", file |-> selectedFile]
    /\ UNCHANGED <<selectedFile, files, preview, uncaught>>

\* The end of a click handler that also drops the selection.
SettleDroppingSelection(i, children, thrown, event) ==
    LET caught == IF thrown = <<>>
                  THEN [children |-> children, rethrown |-> FALSE]
                  ELSE catchBlock(thrown[1], children)
    IN  /\ result' = caught.children
        /\ uncaught' = (uncaught \/ caught.rethrown)
        /\ loaderHidden' = finallyBlock.loaderHidden
        /\ submitDisabled' = finallyBlock.submitDisabled
        /\ inputDisabled' = finallyBlock.inputDisabled
        /\ tasks' = RemoveAt(tasks, i)
        /\ lastEvent' = [ kind |-> event.kind, detail |-> event.detail,
                          settled |-> TRUE, file |-> tasks[i].file,
                          issued |-> tasks[i].issued ]
        /\ selectedFile' = null
        /\ UNCHANGED <<files, preview, errorMessage>>

\* The end of a click handler: the catch block when an error was thrown,
\* then the finally block; the handler is no longer suspended.  The event
\* keeps the file the handler was started with and the number of requests
\* it issued.
Settle(i, children, thrown, event) ==
    LET caught == IF thrown = <<>>
                  THEN [children |-> children, rethrown |-> FALSE]
                  ELSE catchBlock(thrown[1], children)
    IN  /\ result' = caught.children
        /\ uncaught' = (uncaught \/ caught.rethrown)
        /\ loaderHidden' = finallyBlock.loaderHidden
        /\ submitDisabled' = finallyBlock.submitDisabled
        /\ inputDisabled' = finallyBlock.inputDisabled
        /\ tasks' = RemoveAt(tasks, i)
        /\ lastEvent' = [ kind |-> event.kind, detail |-> event.detail,
                          settled |-> TRUE, file |-> tasks[i].file,
                          issued |-> tasks[i].issued ]
        /\ UNCHANGED <<selectedFile, files, preview, errorMessage>>

\* reader.onload: the first await resumes with the encoded file and the
\* handler issues the request, reading selectedFile.type as it does.
ReaderLoad(i) ==
    /\ tasks[i].pc = "fileToBase64"
    /\ LET base64Image == fileToBase64(tasks[i].file)
       IN  IF selectedFile = null
           THEN Settle(i, result, <<TypeError>>,
                       [kind |-> "readerload", detail |-> base64Image])
           ELSE /\ tasks' = [tasks EXCEPT ![i] =
                                [ pc |-> "generateContent",
                                  file |-> tasks[i].file,
                                  issued |-> tasks[i].issued + 1,
                                  request |-> Request(base64Image, selectedFile) ]]
                /\ lastEvent' = [kind |-> "readerload", settled |-> FALSE]
                /\ UNCHANGED <<selectedFile, files, preview, result, loaderHidden,
                               submitDisabled, inputDisabled, errorMessage, uncaught>>

\* reader.onerror: the first await rejects with the reader's error event.
ReaderError(i) ==
    /\ tasks[i].pc = "fileToBase64"
    /\ Settle(i, result, <<ProgressEvent>>,
              [kind |-> "readererror", detail |-> ProgressEvent])

\* generateContent resolves with a response.
GenerateResolve(i, response) ==
    /\ tasks[i].pc = "generateContent"
    /\ LET handled == handleResponse(response, result)
       IN  Settle(i, handled.children, handled.thrown,
                  [kind |-> "resolve", detail |-> response])

\* A rejected call that is issued once more before the handler gives up.
GenerateRejectRetrying(i, error) ==
    /\ tasks[i].pc = "generateContent"
    /\ IF tasks[i].issued < 2
       THEN /\ tasks' = [tasks EXCEPT ![i].issued = @ + 1]
            /\ lastEvent' = [kind |-> "reject", settled |-> FALSE]
            /\ UNCHANGED <<selectedFile, files, preview, result, loaderHidden,
                           submitDisabled, inputDisabled, errorMessage, uncaught>>
       ELSE Settle(i, result, <<error>>, [kind |-> "reject", detail |-> error])

\* generateContent rejects with an error.
GenerateReject(i, error) ==
    /\ tasks[i].pc = "generateContent"
    /\ Settle(i, result, <<error>>,
              [kind |-> "reject", detail |-> error])

ReaderSettles == \E i \in DOMAIN tasks : ReaderLoad(i) \/ ReaderError(i)

GenerateSettles ==
    \E i \in DOMAIN tasks :
        \/ \E response \in Responses : GenerateResolve(i, response)
        \/ \E error \in ServiceErrors : GenerateReject(i, error)

Next ==
    \/ \E picked \in FileLists : Change(picked)
    \/ Click
    \/ ReaderSettles
    \/ GenerateSettles

Spec == Init /\ [][Next]_vars

\* The page whatever the markup makes of the submit button.
SpecAnyMarkup == InitAnyMarkup /\ [][Next]_vars

\* The reader and the service call each settle eventually.
FairSpec == Spec /\ WF_vars(ReaderSettles) /\ WF_vars(GenerateSettles)

----------------------------------------------------------------------------
\* Vocabulary of the properties

\* A click handler is suspended at the file read or at the service call.
InFlight == tasks # <<>>

\* Requests to the generation service that have not settled.
RequestsInFlight == {i \in DOMAIN tasks : tasks[i].pc = "generateContent"}

\* The last step ended a click handler that had entered the loading state.
Settled == "settled" \in DOMAIN lastEvent /\ lastEvent.settled

\* The interactive idle state.
Idle == loaderHidden /\ ~submitDisabled /\ ~inputDisabled

\* The last step was a submit click, without or with a file selected.
ClickedWithoutFile == lastEvent.kind = "click" /\ lastEvent.file = null
ClickedWithFile == lastEvent.kind = "click" /\ lastEvent.file # null

Images(children) == {i \in DOMAIN children : children[i].tag = "img"}
Paragraphs(children) == {i \in DOMAIN children : children[i].tag = "p"}

\* The parts of the response the last step delivered.
LastParts == PartsOf(lastEvent.detail)
ImageParts(parts) == {i \in DOMAIN parts : "inlineData" \in DOMAIN parts[i]}
TextParts(parts) ==
    {i \in DOMAIN parts : "text" \in DOMAIN parts[i] /\ parts[i].text # ""}
First(indices) == CHOOSE i \in indices : \A j \in indices : i <= j

\* The last step ended a submission in failure.
Failed ==
    \/ lastEvent.kind \in {"readererror", "reject"}
    \/ lastEvent.kind = "resolve" /\ ImageParts(LastParts) = {}

----------------------------------------------------------------------------
\* C1: at most one click handler is ever suspended at an await, so at most
\* one request to the generation service is in flight and no submission
\* starts before the earlier one has settled.
C1_AtMostOneInFlight ==
    Len(tasks) <= 1 /\ Cardinality(RequestsInFlight) <= 1

C1_Witness ==
    Len(tasks) = 1 /\ tasks[1].pc = "generateContent" /\ selectedFile # null

\* C2: right after a submit click with no file selected, no handler is
\* encoding or calling the service, the loader stays hidden and the
\* error-message area shows the no-file message.
C2_NoFileClick ==
    ClickedWithoutFile =>
        /\ tasks = <<>>
        /\ loaderHidden
        /\ errorMessage = NoFileMessage

C2_Witness ==
    ClickedWithoutFile /\ errorMessage = NoFileMessage /\ tasks = <<>>

\* C3: while a submission is in flight the file input and the submit button
\* are both disabled, and in the state right after it settles both are
\* enabled.
C3_DisabledUntilSettled ==
    /\ InFlight => submitDisabled /\ inputDisabled
    /\ Settled => ~submitDisabled /\ ~inputDisabled

C3_Witness ==
    Settled /\ ~InFlight /\ ~submitDisabled /\ ~inputDisabled

\* C4: when the file read and the service call settle, every submission in
\* flight leads to the idle state: loader hidden, both controls enabled.
C4_LoadingLeadsToIdle == InFlight ~> (~InFlight /\ Idle)

C4_Witness == Settled /\ ~InFlight /\ Idle /\ lastEvent.kind = "readererror"

\* C5: the submit button is enabled only if a file is selected and no
\* submission is loading.
C5_EnabledOnlyWithFile ==
    ~submitDisabled => selectedFile # null /\ ~InFlight /\ loaderHidden

C5_Witness == ~submitDisabled /\ selectedFile # null /\ Settled

\* C6: after a response with a part holding inlineData, the result area
\* holds exactly one element, the image made of the media type and the data
\* of the first such part.
C6_FirstImageShown ==
    (lastEvent.kind = "resolve" /\ ImageParts(LastParts) # {}) =>
        LET inlineData == LastParts[First(ImageParts(LastParts))].inlineData
        IN  /\ Len(result) = 1
            /\ result[1].tag = "img"
            /\ result[1].src
                  = "data:" \o inlineData.mimeType \o ";base64," \o inlineData.data

C6_Witness ==
    /\ lastEvent.kind = "resolve"
    /\ Cardinality(ImageParts(LastParts)) = 2
    /\ "text" \in DOMAIN LastParts[1]
    /\ "inlineData" \notin DOMAIN LastParts[1]
    /\ Images(result) = {1}

\* C7: after a response with no inlineData part and a part with a non-empty
\* text, the result area holds exactly one element, an error paragraph
\* whose text is the text of the first such part.
C7_TextShownAsError ==
    (/\ lastEvent.kind = "resolve"
     /\ ImageParts(LastParts) = {}
     /\ TextParts(LastParts) # {}) =>
        /\ Len(result) = 1
        /\ result[1].tag = "p"
        /\ result[1].textContent = LastParts[First(TextParts(LastParts))].text

C7_Witness ==
    /\ lastEvent.kind = "resolve"
    /\ ImageParts(LastParts) = {}
    /\ TextParts(LastParts) # {}
    /\ result = <<ErrorEl(Text1)>>

\* C8: after a response with no inlineData part and no part with a
\* non-empty text, the result area holds exactly one element, an error
\* paragraph with the generic message for a response without an image.
C8_GenericFallback ==
    (/\ lastEvent.kind = "resolve"
     /\ ImageParts(LastParts) = {}
     /\ TextParts(LastParts) = {}) =>
        /\ Len(result) = 1
        /\ result[1].tag = "p"
        /\ result[1].textContent = defaultError

C8_Witness ==
    /\ lastEvent.kind = "resolve"
    /\ "candidates" \notin DOMAIN lastEvent.detail
    /\ Paragraphs(result) = {1}
    /\ result[1].textContent = defaultError

\* C9: after a failed submission the result area holds exactly one error
\* paragraph and no image, and the handler's promise has not rejected.
C9_FailureRendersOneParagraph ==
    Failed =>
        /\ Cardinality(Paragraphs(result)) = 1
        /\ Images(result) = {}
        /\ ~uncaught

C9_Witness ==
    /\ lastEvent.kind = "readererror"
    /\ result = <<ErrorEl(UnknownError)>>
    /\ ~uncaught

\* C10: the result area never holds more than one element: one image or
\* one error paragraph.
C10_AtMostOneResult ==
    Cardinality(Images(result)) + Cardinality(Paragraphs(result)) <= 1

C10_Witness ==
    /\ Settled
    /\ Len(result) = 1
    /\ result[1].tag = "img"
    /\ result[1].src = "data:image/png;base64,iVBORw0KGgo="

----------------------------------------------------------------------------
\* The last step was an accepted pick of a file.
Picked == lastEvent.kind = "change" /\ lastEvent.picked # <<>>

\* C11: right after a file is picked, the result area holds no image and no
\* error paragraph, the error-message area is empty and the preview shows
\* the picked file, whatever result or message was displayed before.
C11_PickClearsResultAndError ==
    Picked =>
        /\ Images(result) = {}
        /\ Paragraphs(result) = {}
        /\ errorMessage = ""
        /\ preview = <<[tag |-> "img", src |-> [blob |-> lastEvent.picked[1]]]>>

C11_Witness ==
    /\ Picked
    /\ Paragraphs(lastEvent.before.result) = {1}
    /\ result = <<>>
    /\ errorMessage = ""

\* A second witness of C11's case: the no-file message was displayed.
C11_MessageCleared ==
    Picked /\ lastEvent.before.errorMessage = NoFileMessage /\ errorMessage = ""

\* C12 as claimed: once a submission has settled, no file is held as the
\* current selection.
C12_SelectionDropped == Settled => selectedFile = null

\* C12 as amended: a settled submission leaves the file it was started with
\* as the current selection, and no step of a submission in flight changes
\* the selection, so the submit button is enabled with that file selected.
C12_SelectionRetained ==
    /\ [](Settled => selectedFile = lastEvent.file /\ selectedFile # null)
    /\ [][InFlight => selectedFile' = selectedFile]_vars

C12_Witness ==
    /\ Settled
    /\ lastEvent.kind = "resolve"
    /\ selectedFile \in Files
    /\ files = <<selectedFile>>
    /\ ~submitDisabled

\* C13: the state right after a pick of file F is the same whatever the
\* state before: selection F, file list F, one preview image of F, submit
\* enabled, input enabled, loader hidden, empty result area, empty message,
\* no submission in flight; so a pick of F right after a pick of F changes
\* nothing but the record of what was displayed before.
C13_PickReplacesState ==
    /\ [](Picked =>
            /\ selectedFile \in Files
            /\ files = <<selectedFile>>
            /\ lastEvent.picked = <<selectedFile>>
            /\ preview = <<[tag |-> "img", src |-> [blob |-> selectedFile]]>>
            /\ ~submitDisabled /\ ~inputDisabled /\ loaderHidden
            /\ result = <<>>
            /\ errorMessage = ""
            /\ tasks = <<>>)
    /\ [][(Picked /\ lastEvent'.kind = "change"
                  /\ lastEvent'.picked = lastEvent.picked) =>
            UNCHANGED <<selectedFile, files, preview, result, loaderHidden,
                        submitDisabled, inputDisabled, errorMessage, tasks,
                        uncaught>>]_vars

C13_Witness ==
    /\ Picked
    /\ lastEvent.before.result = <<>>
    /\ lastEvent.before.errorMessage = ""
    /\ preview = <<[tag |-> "img", src |-> [blob |-> selectedFile]]>>
    /\ selectedFile.type = "image/jpeg"
    /\ selectedFile.bytes = PngBytes

----------------------------------------------------------------------------
\* C14: a click handler has issued no request while it waits for the file
\* read and exactly one while it waits for the service; a handler that ended
\* on a reader error issued none, one that ended on a response or on a
\* rejected call issued exactly one.
C14_OneRequestPerSubmission ==
    /\ \A i \in DOMAIN tasks :
          tasks[i].issued = IF tasks[i].pc = "generateContent" THEN 1 ELSE 0
    /\ Settled =>
          lastEvent.issued = IF lastEvent.kind \in {"resolve", "reject"} THEN 1 ELSE 0

C14_Witness ==
    Settled /\ lastEvent.kind = "reject" /\ lastEvent.issued = 1

\* A second witness of C14's case: a failed file read issued no request.
C14_NoRequestOnReadError ==
    Settled /\ lastEvent.kind = "readererror" /\ lastEvent.issued = 0

\* C15: while a submission is in flight the result area holds no image and
\* no error paragraph and the error-message area is empty.
C15_NothingShownWhileLoading ==
    InFlight =>
        /\ Images(result) = {}
        /\ Paragraphs(result) = {}
        /\ errorMessage = ""

C15_Witness ==
    /\ InFlight
    /\ lastEvent.kind = "readerload"
    /\ ~loaderHidden
    /\ result = <<>>
    /\ errorMessage = ""

\* C16: the selection does not change while a submission is in flight, and
\* the request carries the media type and the base64 text of the file that
\* was selected at the click.
C16_RequestOfOneFile ==
    \A i \in DOMAIN tasks :
        /\ tasks[i].file = selectedFile
        /\ tasks[i].pc = "generateContent" =>
              LET inlineData == tasks[i].request.parts[1].inlineData
              IN  /\ inlineData.mimeType = tasks[i].file.type
                  /\ inlineData.data = Base64(tasks[i].file.bytes)

C16_Witness ==
    /\ Len(tasks) = 1
    /\ tasks[1].pc = "generateContent"
    /\ tasks[1].file = [bytes |-> PngBytes, type |-> "image/jpeg"]
    /\ tasks[1].request.parts[1].inlineData
          = [data |-> "iVBO", mimeType |-> "image/jpeg"]

\* C17: a submit click with no file selected changes nothing but the
\* error-message area.
C17_NoFileClickFrame ==
    [][(selectedFile = null /\ lastEvent'.kind = "click") =>
          UNCHANGED <<result, preview, loaderHidden, submitDisabled,
                      inputDisabled, selectedFile, files, tasks, uncaught>>]_vars

C17_Witness ==
    /\ ClickedWithoutFile
    /\ Idle
    /\ result = <<>>
    /\ preview = <<>>
    /\ selectedFile = null

\* C18: the error-message area is empty or shows the no-file message, shows
\* it only while no file is selected, and is empty right after an accepted
\* pick and right after a submit click with a file selected.
C18_MessageOnlyWithoutFile ==
    /\ errorMessage \in {"", NoFileMessage}
    /\ errorMessage # "" => selectedFile = null
    /\ Picked => errorMessage = ""
    /\ ClickedWithFile => errorMessage = ""

C18_Witness ==
    /\ errorMessage = NoFileMessage
    /\ selectedFile = null
    /\ lastEvent.kind = "change"

====
